---- MODULE Spec2Model ----
(***************************************************************************)
(* Reservation.calculate_fare of Main/models.py, with the Python           *)
(* semantics it relies on: str.split, dict.get, true division, binary64    *)
(* multiplication and round(x, 2).                                         *)
(*                                                                         *)
(* Strings that the code cuts with split() are sequences of one-character  *)
(* strings.  A float is a record [man, exp] standing for man * 2^exp, man  *)
(* a natural number held as little-endian limbs in base 2^15 and odd (or   *)
(* zero with exp = 0), so that equal floats are equal records.  All the    *)
(* values the fare computation meets are far from the binary64 exponent    *)
(* limits, so only the 53-bit significand rounding is modelled.            *)
(***************************************************************************)
EXTENDS Integers, Sequences, FiniteSets, TLC

VARIABLES self, returned

vars == <<self, returned>>

\* Python values carry their type: None, int (plain integers in val) and float.
None == [type |-> "NoneType"]

PyInt(n) == [type |-> "int", val |-> n]

(***************************************************************************)
(* Natural numbers of arbitrary size (Python int, and the exact            *)
(* significand products of float arithmetic).                              *)
(***************************************************************************)
Base == 32 * 1024

LimbBits == 15

RECURSIVE Pow2(_)
Pow2(n) == IF n = 0 THEN 1 ELSE 2 * Pow2(n - 1)

RECURSIVE BigFromInt(_)
BigFromInt(n) == IF n = 0 THEN <<>> ELSE <<n % Base>> \o BigFromInt(n \div Base)

RECURSIVE BigStrip(_)
BigStrip(a) ==
    IF a = <<>> THEN <<>>
    ELSE IF a[Len(a)] = 0 THEN BigStrip(SubSeq(a, 1, Len(a) - 1))
    ELSE a

RECURSIVE BigMulSmall(_, _, _)
BigMulSmall(a, k, carry) ==
    IF a = <<>> THEN BigFromInt(carry)
    ELSE LET t == a[1] * k + carry
         IN  <<t % Base>> \o BigMulSmall(Tail(a), k, t \div Base)

RECURSIVE BigAdd(_, _, _)
BigAdd(a, b, carry) ==
    IF a = <<>> /\ b = <<>> THEN BigFromInt(carry)
    ELSE LET x == IF a = <<>> THEN 0 ELSE a[1]
             y == IF b = <<>> THEN 0 ELSE b[1]
             t == x + y + carry
         IN  <<t % Base>> \o BigAdd(IF a = <<>> THEN <<>> ELSE Tail(a),
                                    IF b = <<>> THEN <<>> ELSE Tail(b),
                                    t \div Base)

RECURSIVE BigMul(_, _)
BigMul(a, b) ==
    IF a = <<>> \/ b = <<>> THEN <<>>
    ELSE BigStrip(BigAdd(BigMulSmall(a, b[1], 0), <<0>> \o BigMul(a, Tail(b)), 0))

\* Quotient and remainder of a by the small number d, high limb first.
RECURSIVE BigDivSmall(_, _)
BigDivSmall(a, d) ==
    IF a = <<>> THEN [q |-> <<>>, r |-> 0]
    ELSE LET hi == BigDivSmall(Tail(a), d)
             t  == hi.r * Base + a[1]
         IN  [q |-> BigStrip(<<t \div d>> \o hi.q), r |-> t % d]

RECURSIVE SmallBitLen(_)
SmallBitLen(n) == IF n = 0 THEN 0 ELSE 1 + SmallBitLen(n \div 2)

BigBitLen(a) ==
    IF a = <<>> THEN 0 ELSE (Len(a) - 1) * LimbBits + SmallBitLen(a[Len(a)])

BigIsOdd(a) == a # <<>> /\ a[1] % 2 = 1

BigShiftLeft(a, k) ==
    IF a = <<>> THEN <<>>
    ELSE [i \in 1..(k \div LimbBits) |-> 0] \o BigMulSmall(a, Pow2(k % LimbBits), 0)

\* a shifted right by k bits, and whether a one bit was shifted out.
BigShiftRight(a, k) ==
    LET n    == k \div LimbBits
        low  == SubSeq(a, 1, IF n < Len(a) THEN n ELSE Len(a))
        high == SubSeq(a, n + 1, Len(a))
        d    == BigDivSmall(high, Pow2(k % LimbBits))
    IN  [q |-> d.q, sticky |-> d.r # 0 \/ (\E i \in 1..Len(low) : low[i] # 0)]

\* a * 2^exp rounded to an integer, ties to even (exp may be negative).
BigRoundHalfEven(a, exp, sticky) ==
    IF exp >= 0 THEN BigShiftLeft(a, exp)
    ELSE LET s  == BigShiftRight(a, (-exp) - 1)
             q  == BigDivSmall(s.q, 2)
             up == q.r = 1 /\ (s.sticky \/ sticky \/ BigIsOdd(q.q))
         IN  IF up THEN BigAdd(q.q, <<1>>, 0) ELSE q.q

(***************************************************************************)
(* Python float (IEEE 754 binary64, round to nearest, ties to even).       *)
(***************************************************************************)
MantissaBits == 53

RECURSIVE FloatCanon(_, _)
FloatCanon(man, exp) ==
    IF man = <<>> THEN [type |-> "float", man |-> <<>>, exp |-> 0]
    ELSE IF man[1] = 0 THEN FloatCanon(Tail(man), exp + LimbBits)
    ELSE IF man[1] % 2 = 0 THEN FloatCanon(BigDivSmall(man, 2).q, exp + 1)
    ELSE [type |-> "float", man |-> man, exp |-> exp]

\* The float nearest to man * 2^exp (plus a nonzero tail below it when sticky).
FloatRound(man, exp, sticky) ==
    LET s == BigBitLen(man) - MantissaBits
    IN  IF s <= 0 THEN FloatCanon(man, exp)
        ELSE FloatCanon(BigRoundHalfEven(man, -s, sticky), exp + s)

FloatFromInt(n) == FloatRound(BigFromInt(n), 0, FALSE)

\* Bits kept below the binary point when a quotient is formed before rounding.
QuotientGuardBits == 5 * LimbBits

\* int / int and the reading of a decimal numeral: the float nearest num / den.
FloatFromRatio(num, den) ==
    LET d == BigDivSmall(BigShiftLeft(num, QuotientGuardBits), den)
    IN  FloatRound(d.q, -QuotientGuardBits, d.r # 0)

FloatMul(x, y) == FloatRound(BigMul(x.man, y.man), x.exp + y.exp, FALSE)

\* float(x) of an int or a float.
ToFloat(x) == IF x.type = "int" THEN FloatFromInt(x.val) ELSE x

\* x * y: int * int is an int; otherwise the int operand is converted first.
PyMul(x, y) ==
    IF x.type = "int" /\ y.type = "int" THEN PyInt(x.val * y.val)
    ELSE FloatMul(ToFloat(x), ToFloat(y))

\* x / y of two ints (true division).
PyTrueDiv(x, y) == FloatFromRatio(BigFromInt(x.val), y.val)

\* The float a decimal numeral with the given digits and decimal places reads as.
FloatLiteral(digits, places) == FloatFromRatio(BigFromInt(digits), 10 ^ places)

\* round(x, 2) of a float: the exact value of x correctly rounded to two
\* decimals (ties to even), then read back as the nearest float.
\* An int is returned as it is.
Round2OfFloat(x) ==
    FloatFromRatio(BigRoundHalfEven(BigMulSmall(x.man, 100, 0), x.exp, FALSE), 100)

\* The two decimals of x cut off instead of rounded: int(x * 100) / 100.
PyRound2_truncating(x) ==
    IF x.type = "int" THEN x
    ELSE LET t == BigMulSmall(x.man, 100, 0)
         IN  FloatFromRatio(IF x.exp >= 0 THEN BigShiftLeft(t, x.exp)
                            ELSE BigShiftRight(t, -x.exp).q, 100)

PyRound2(x) == IF x.type = "int" THEN x ELSE Round2OfFloat(x)

\* 'lucban_terminal'
lucban_terminal ==
    <<"l", "u", "c", "b", "a", "n", "_", "t", "e", "r", "m", "i", "n", "a", "l">>

\* 'lucena_grand_terminal'
lucena_grand_terminal ==
    <<"l", "u", "c", "e", "n", "a", "_", "g", "r", "a", "n", "d", "_", "t", "e", "r", "m", "i", "n", "a", "l">>

\* 'tayabas_city_public_market'
tayabas_city_public_market ==
    <<"t", "a", "y", "a", "b", "a", "s", "_", "c", "i", "t", "y", "_", "p", "u", "b", "l", "i", "c", "_", "m", "a", "r", "k", "e", "t">>

\* 'groto_lucban_quezon'
groto_lucban_quezon ==
    <<"g", "r", "o", "t", "o", "_", "l", "u", "c", "b", "a", "n", "_", "q", "u", "e", "z", "o", "n">>

\* 'tayabas_city_quezon'
tayabas_city_quezon ==
    <<"t", "a", "y", "a", "b", "a", "s", "_", "c", "i", "t", "y", "_", "q", "u", "e", "z", "o", "n">>
(***************************************************************************)
(* Python str and dict operations used by calculate_fare.                  *)
(***************************************************************************)
IsPrefixAt(s, sep, i) ==
    i + Len(sep) - 1 <= Len(s) /\ SubSeq(s, i, i + Len(sep) - 1) = sep

\* s.split(sep): the pieces of s between the occurrences of sep, found left
\* to right without overlap; a string without sep is its own single piece.
RECURSIVE StrSplit(_, _)
StrSplit(s, sep) ==
    LET hits == {i \in 1..Len(s) : IsPrefixAt(s, sep, i)}
    IN  IF hits = {} THEN <<s>>
        ELSE LET i == CHOOSE j \in hits : \A h \in hits : j <= h
             IN  <<SubSeq(s, 1, i - 1)>>
                   \o StrSplit(SubSeq(s, i + Len(sep), Len(s)), sep)

\* d.get(key, default)
DictGet(d, key, default) == IF key \in DOMAIN d THEN d[key] ELSE default

(***************************************************************************)
(* class Reservation                                                       *)
(***************************************************************************)
pick_tag == <<"_", "p", "i", "c", "k">>

drop_tag == <<"_", "d", "r", "o", "p">>

\* The choices with the starting terminal of the route table among them.
PICKUP_LOCATION_CHOICES_with_lucban ==
    { lucban_terminal \o pick_tag,
      lucena_grand_terminal \o pick_tag,
      groto_lucban_quezon \o pick_tag,
      tayabas_city_quezon \o pick_tag }

PICKUP_LOCATION_CHOICES ==
    { lucena_grand_terminal \o pick_tag,
      groto_lucban_quezon \o pick_tag,
      tayabas_city_quezon \o pick_tag }

DROPOFF_LOCATION_CHOICES ==
    { lucena_grand_terminal \o drop_tag,
      groto_lucban_quezon \o drop_tag,
      tayabas_city_quezon \o drop_tag }

VEHICLE_CHOICES == {"Toyota Corolla", "Modernized PUV V1", "Modernized PUV V2"}

distance_map ==
    (<<lucban_terminal, lucena_grand_terminal>>
        :> FloatLiteral(232, 1))       \* 23.2
 @@ (<<lucban_terminal, tayabas_city_public_market>>
        :> FloatLiteral(129, 1))       \* 12.9
 @@ (<<tayabas_city_public_market, lucena_grand_terminal>>
        :> FloatLiteral(92, 1))        \*  9.2

pickup_key(r) == StrSplit(r.pickup_location, pick_tag)[1]

dropoff_key(r) == StrSplit(r.dropoff_location, drop_tag)[1]

route_key(r) == <<pickup_key(r), dropoff_key(r)>>

\* An unlisted route counted as one kilometre.
distance_default_one(r) == DictGet(distance_map, route_key(r), PyInt(1))

\* A route also found under its reversed pair.
distance_either_direction(r) ==
    DictGet(distance_map, route_key(r),
            DictGet(distance_map, <<dropoff_key(r), pickup_key(r)>>, PyInt(0)))

distance(r) == DictGet(distance_map, route_key(r), PyInt(0))

\* 17 // 4 in place of 17 / 4.
fare_per_km_floordiv == PyInt(17 \div 4)

fare_per_km == PyTrueDiv(PyInt(17), PyInt(4))

base_fare(r) == PyMul(distance(r), fare_per_km)

seat_map ==
    ("Toyota Corolla" :> PyInt(6))
 @@ ("Modernized PUV V1" :> PyInt(15))
 @@ ("Modernized PUV V2" :> PyInt(15))

\* An unlisted vehicle counted as one seat.
seat_count_default_one(r) == DictGet(seat_map, r.vehicle, PyInt(1))

seat_count(r) == DictGet(seat_map, r.vehicle, PyInt(0))

\* The roundtrip flag ignored.
total_fare_never_doubled(r) == PyMul(base_fare(r), seat_count(r))

total_fare(r) ==
    LET one_way == PyMul(base_fare(r), seat_count(r))
    IN  IF r.roundtrip THEN PyMul(one_way, PyInt(2)) ELSE one_way

\* A DecimalField value with two decimal places, held in hundredths, as a float.
DecimalToFloat(hundredths) == FloatFromRatio(BigFromInt(hundredths), 100)

\* A stored total_fare returned in place of a fresh computation.
calculate_fare_reusing_stored(r) ==
    IF r.total_fare # 0 THEN DecimalToFloat(r.total_fare)
    ELSE PyRound2(total_fare(r))

calculate_fare(r) == PyRound2(total_fare(r))
(***************************************************************************)
(* The Reservation records considered.  choices= is not enforced when a    *)
(* record is built or saved, so any string can sit in the location and     *)
(* vehicle fields.                                                         *)
(***************************************************************************)
MaxFill == 1

Fillers == {[i \in 1..n |-> "x"] : n \in 0..MaxFill}

Terminals ==
    { lucban_terminal, lucena_grand_terminal, tayabas_city_public_market,
      groto_lucban_quezon, tayabas_city_quezon }

\* Bare keys: the terminals, short strings, and strings holding the tag inside.
KeysWith(tag) ==
    Terminals \cup Fillers
      \cup {f \o tag \o g : f \in Fillers \cup {lucban_terminal}, g \in Fillers}

PickupCodes == {k \o sfx : k \in KeysWith(pick_tag), sfx \in {<<>>, pick_tag}}

DropoffCodes == {k \o sfx : k \in KeysWith(drop_tag), sfx \in {<<>>, drop_tag}}

Vehicles == VEHICLE_CHOICES \cup {"Toyota Vios", ""}

\* Values of the fields calculate_fare is not meant to read.
OtherFields ==
    { [user |-> 1, full_name |-> "Ana Cruz", contact_number |-> "09170000001",
       pickup_date |-> None, dropoff_date |-> None,
       pickup_time |-> None, dropoff_time |-> None,
       payment_method |-> "cash", total_fare |-> 0,
       gcash_receipt |-> None, created_at |-> 1],
      [user |-> 2, full_name |-> "Ben Reyes", contact_number |-> "09170000002",
       pickup_date |-> "2024-05-01", dropoff_date |-> "2024-05-02",
       pickup_time |-> "08:00", dropoff_time |-> "17:30",
       payment_method |-> "gcash", total_fare |-> 59160,
       gcash_receipt |-> "receipts/r2.png", created_at |-> 2],
      [user |-> 1, full_name |-> "Ana Cruz", contact_number |-> "09170000001",
       pickup_date |-> "2024-05-03", dropoff_date |-> None,
       pickup_time |-> "06:15", dropoff_time |-> None,
       payment_method |-> "cash", total_fare |-> 1,
       gcash_receipt |-> None, created_at |-> 3] }

Reservation(pickup, dropoff, vehicle, roundtrip, o) ==
    [ user |-> o.user, full_name |-> o.full_name,
      contact_number |-> o.contact_number,
      pickup_date |-> o.pickup_date, dropoff_date |-> o.dropoff_date,
      pickup_time |-> o.pickup_time, dropoff_time |-> o.dropoff_time,
      pickup_location |-> pickup, dropoff_location |-> dropoff,
      vehicle |-> vehicle, payment_method |-> o.payment_method,
      total_fare |-> o.total_fare, roundtrip |-> roundtrip,
      gcash_receipt |-> o.gcash_receipt, created_at |-> o.created_at ]

Reservations ==
    { Reservation(p, d, v, rt, o) :
        p \in PickupCodes, d \in DropoffCodes, v \in Vehicles,
        rt \in BOOLEAN, o \in OtherFields }

Init ==
    /\ self \in Reservations
    /\ returned = None

RECURSIVE BigToInt(_)
BigToInt(a) == IF a = <<>> THEN 0 ELSE a[1] + Base * BigToInt(Tail(a))

\* The value a two-place DecimalField keeps of x, in hundredths.
FloatToDecimal(x) ==
    LET f == ToFloat(x)
    IN  BigToInt(BigRoundHalfEven(BigMulSmall(f.man, 100, 0), f.exp, FALSE))

\* The call with the fare also stored in the record's total_fare.
Call_calculate_fare_storing ==
    /\ returned' = calculate_fare(self)
    /\ self' = [self EXCEPT !.total_fare = FloatToDecimal(calculate_fare(self))]

\* self.calculate_fare(): the call returns a value and assigns nothing.
Call_calculate_fare ==
    /\ returned' = calculate_fare(self)
    /\ UNCHANGED self

Next == Call_calculate_fare

Spec == Init /\ [][Next]_vars

(***************************************************************************)
(* Properties                                                              *)
(***************************************************************************)
Called == returned # None

\* The fare tables as the specification states them: km in tenths, seats.
StatedRoutes ==
    { [from |-> lucban_terminal, to |-> lucena_grand_terminal, tenths |-> 232],
      [from |-> lucban_terminal, to |-> tayabas_city_public_market, tenths |-> 129],
      [from |-> tayabas_city_public_market, to |-> lucena_grand_terminal, tenths |-> 92] }

StatedSeats ==
    { [vehicle |-> "Toyota Corolla", seats |-> 6],
      [vehicle |-> "Modernized PUV V1", seats |-> 15],
      [vehicle |-> "Modernized PUV V2", seats |-> 15] }

StatedVehicles == {s.vehicle : s \in StatedSeats}

Travels(r, a, b) ==
    r.pickup_location = a \o pick_tag /\ r.dropoff_location = b \o drop_tag

\* distance * 17/4 * seats in thousandths of a currency unit, exactly.
ExactThousandths(tenths, seats) == tenths * 17 * seats * 25

\* Thousandths rounded to hundredths, ties to even.
ToHundredths(t) ==
    LET q == t \div 10
        m == t % 10
    IN  IF m > 5 \/ (m = 5 /\ q % 2 = 1) THEN q + 1 ELSE q

\* x == y across int and float.
PyEq(x, y) == ToFloat(x) = ToFloat(y)

IsZero(x) == PyEq(x, PyInt(0))

IsPositive(x) == x # None /\ ~IsZero(x)

\* C1: on each of the three defined routes, with each of the three vehicle
\* classes and roundtrip false, calculate_fare returns the exact product
\* distance_km * 17/4 * seat_count rounded to two decimals.
C1_OneWayFareIsExactProduct ==
    \A rt \in StatedRoutes : \A s \in StatedSeats :
        (Called /\ Travels(self, rt.from, rt.to)
                /\ self.vehicle = s.vehicle /\ ~self.roundtrip)
        => PyEq(returned,
                FloatLiteral(ToHundredths(ExactThousandths(rt.tenths, s.seats)), 2))

\* The one-way fare whose exact value 822.375 lies half way between two cents.
C1_Witness ==
    /\ Called
    /\ Travels(self, lucban_terminal, tayabas_city_public_market)
    /\ self.vehicle = "Modernized PUV V1" /\ ~self.roundtrip
    /\ returned = FloatLiteral(82238, 2)

\* C2 as stated: the value returned with roundtrip true is twice the value
\* returned for the same pickup, dropoff and vehicle with roundtrip false.
C2_RoundTripIsTwiceOneWay ==
    (Called /\ self.roundtrip)
    => PyEq(returned,
            PyMul(PyInt(2), calculate_fare([self EXCEPT !.roundtrip = FALSE])))

HalfCentRoute(r) ==
    /\ route_key(r) = <<lucban_terminal, tayabas_city_public_market>>
    /\ r.vehicle \in {"Modernized PUV V1", "Modernized PUV V2"}

\* C2 amended: the round-trip fare is twice the returned one-way fare, except
\* from lucban_terminal to tayabas_city_public_market with a 15-seat vehicle,
\* where one way returns 822.38 and the round trip returns 1644.75.
C2_RoundTripIsTwiceOneWayButHalfCent ==
    (Called /\ self.roundtrip)
    => LET one_way == calculate_fare([self EXCEPT !.roundtrip = FALSE])
       IN  IF HalfCentRoute(self)
           THEN /\ PyEq(returned, FloatLiteral(164475, 2))
                /\ PyEq(one_way, FloatLiteral(82238, 2))
           ELSE PyEq(returned, PyMul(PyInt(2), one_way))

C2_Witness ==
    /\ Called /\ self.roundtrip
    /\ Travels(self, lucban_terminal, tayabas_city_public_market)
    /\ self.vehicle = "Modernized PUV V2"
    /\ returned = FloatLiteral(164475, 2)

IsStatedRoute(key) == \E rt \in StatedRoutes : key = <<rt.from, rt.to>>

\* C3: when the stripped (pickup, dropoff) pair is no key of the distance
\* table, calculate_fare returns 0 whatever the vehicle and roundtrip are.
C3_UnknownRouteGivesZero ==
    (Called /\ ~IsStatedRoute(route_key(self))) => IsZero(returned)

C3_Witness ==
    /\ Called /\ self.roundtrip
    /\ Travels(self, groto_lucban_quezon, lucban_terminal)
    /\ self.vehicle = "Modernized PUV V1"
    /\ IsZero(returned)

\* C4: when the vehicle is none of the three classes, calculate_fare returns
\* 0 whatever the route and roundtrip are.
C4_UnknownVehicleGivesZero ==
    (Called /\ self.vehicle \notin StatedVehicles) => IsZero(returned)

C4_Witness ==
    /\ Called /\ self.roundtrip
    /\ Travels(self, lucban_terminal, lucena_grand_terminal)
    /\ self.vehicle = "Toyota Vios"
    /\ IsZero(returned)

\* C5: the route table is directional: each defined route travelled backwards
\* gives fare 0, and travelled forwards with a known vehicle gives a fare
\* above 0.
C5_RoutesAreDirectional ==
    \A rt \in StatedRoutes :
        /\ (Called /\ Travels(self, rt.to, rt.from)) => IsZero(returned)
        /\ (Called /\ Travels(self, rt.from, rt.to)
                   /\ self.vehicle \in StatedVehicles) => IsPositive(returned)

C5_Witness ==
    /\ Called
    /\ Travels(self, lucena_grand_terminal, lucban_terminal)
    /\ self.vehicle = "Toyota Corolla"
    /\ IsZero(returned)

Scenario(r, from, to, vehicle, roundtrip) ==
    Travels(r, from, to) /\ r.vehicle = vehicle /\ r.roundtrip = roundtrip

\* C6: the three worked scenarios return 591.60, 2958.00 and 586.50.
C6_WorkedScenarios ==
    Called =>
      /\ Scenario(self, lucban_terminal, lucena_grand_terminal,
                  "Toyota Corolla", FALSE)
           => PyEq(returned, FloatLiteral(59160, 2))
      /\ Scenario(self, lucban_terminal, lucena_grand_terminal,
                  "Modernized PUV V1", TRUE)
           => PyEq(returned, FloatLiteral(295800, 2))
      /\ Scenario(self, tayabas_city_public_market, lucena_grand_terminal,
                  "Modernized PUV V2", FALSE)
           => PyEq(returned, FloatLiteral(58650, 2))

C6_Witness ==
    /\ Called
    /\ Scenario(self, tayabas_city_public_market, lucena_grand_terminal,
                "Modernized PUV V2", FALSE)
    /\ returned = FloatLiteral(58650, 2)

\* C7: the value returned for a record, after any number of calls, is the
\* value every record with the same pickup, dropoff, vehicle and roundtrip
\* gets, whatever its other fields hold.
C7_FareDependsOnFourFieldsOnly ==
    Called =>
      \A o \in OtherFields :
        calculate_fare(Reservation(self.pickup_location, self.dropoff_location,
                                   self.vehicle, self.roundtrip, o)) = returned

C7_Witness ==
    /\ Called
    /\ self.user = 2 /\ self.total_fare = 59160
    /\ Scenario(self, lucban_terminal, tayabas_city_public_market,
                "Toyota Corolla", TRUE)
    /\ returned = FloatLiteral(65790, 2)

\* C8: a call of calculate_fare changes no field of the record, the stored
\* total_fare included.
C8_CallLeavesRecordUnchanged == [][self' = self]_vars

\* A call has returned 591.60 and the stored total_fare still holds 0.
C8_Witness ==
    /\ Called
    /\ self.total_fare = 0
    /\ returned = FloatLiteral(59160, 2)

EndsWith(s, tag) ==
    Len(s) >= Len(tag) /\ SubSeq(s, Len(s) - Len(tag) + 1, Len(s)) = tag

\* C9 as stated: a pickup code k + '_pick' and a dropoff code k2 + '_drop'
\* are looked up as (k, k2), also when k or k2 hold a tag inside, and a code
\* without the suffix is its own key.
C9_KeyIsCodeWithoutSuffix ==
    Called =>
      /\ \A k \in KeysWith(pick_tag) :
           self.pickup_location = k \o pick_tag => pickup_key(self) = k
      /\ \A k \in KeysWith(drop_tag) :
           self.dropoff_location = k \o drop_tag => dropoff_key(self) = k
      /\ ~EndsWith(self.pickup_location, pick_tag)
           => pickup_key(self) = self.pickup_location
      /\ ~EndsWith(self.dropoff_location, drop_tag)
           => dropoff_key(self) = self.dropoff_location

\* C10: with a pickup and a dropoff taken from the declared choices, the
\* stripped pair is no route of the table and calculate_fare returns 0.
C10_DeclaredChoicesGiveZero ==
    (Called /\ self.pickup_location \in PICKUP_LOCATION_CHOICES
            /\ self.dropoff_location \in DROPOFF_LOCATION_CHOICES)
    => (~IsStatedRoute(route_key(self)) /\ IsZero(returned))

C10_Witness ==
    /\ Called /\ ~self.roundtrip
    /\ self.pickup_location = tayabas_city_quezon \o pick_tag
    /\ self.dropoff_location = lucena_grand_terminal \o drop_tag
    /\ self.vehicle = "Modernized PUV V2"
    /\ IsZero(returned)

====
